---- MODULE Spec2Model ----
(***************************************************************************)
(* Meeting-bot session orchestrator of services/bot-service.               *)
(*                                                                         *)
(* The service is a single Node.js process: a handler runs without         *)
(* interruption until it reaches an `await`, so every action below is one  *)
(* run-to-the-next-await segment of a handler or of the bot runner.        *)
(***************************************************************************)
EXTENDS Integers, FiniteSets, Sequences, TLC

\* ------------------------------------------------------------------ bounds
NumSessions == 2        \* distinct sessionIds callers send to /join (Spec)
NumMeetings == 1        \* distinct meetingIds callers send to /join (Spec)
MaxLeaves == 2          \* /leave requests in flight per session
CapLeaveIds == 1        \* sessions that receive /leave in the capacity scenario
EndSessions == 1        \* distinct sessionIds in the end-of-meeting scenario (SpecEnd)
BackupSessions == 1     \* distinct sessionIds sent to the backup service (SpecBackup)
MaxChunks == 2          \* chunk files the rotation timer opens per recording
MaxMinutes == 6         \* minutes a recording is followed (SpecClock)
NumSpeakers == 2        \* distinct participant names the page reports
MaxSpeakerLog == 2      \* entries of speakerLog that are followed
WebhookSessions == 2    \* sessionIds the webhook route receives events for
MaxFetches == 2         \* transcript fetches the webhook route starts per session
NumTickers == 2         \* invocations of tickScheduler that can overlap
NumSchedules == 2       \* recordings that are scheduled
FirstStart == 3         \* the minute at which the scheduled meetings start
MaxNow == 34            \* the last minute at which a tick reads the clock
MaxJoinCalls == 2       \* requestBotJoin calls that are followed per schedule

\* ------------------------------------------------------- program constants
MAX_BOTS == 5           \* process.env.MAX_BOTS || 5

\* The capacity scenario needs MAX_BOTS admitted sessions and one more id.
CapSessions == MAX_BOTS + 1

AllIds == 1..CapSessions

VARIABLES
    sessions,        \* the registry: sessionId -> session object
    rb,              \* position of runBot(sessionId)
    hme,             \* handleMeetingEnd invocations suspended at each await
    lastJoin,        \* the response to the most recent POST /join
    pipelineStarts,  \* how often the processing block of handleMeetingEnd was entered
    slotFreed,       \* a session completed while the service was exactly at capacity
    faults,          \* which collaborators have failed for a session: join, stt,
                     \* merge, stream (getStream), webhook (axios.post), closed
                     \* (the page), kicked (the meeting removed the bot), cleanup
                     \* (browser.close())
    impl,            \* which service file is deployed: "index" or "backup"
    mainApp,         \* the webhook receiver: "up" (every POST resolves) or "flaky"
    transcriptWrites,\* how often session.transcript was assigned
    noAudio,         \* sessions that entered 'processing' with no chunk file and no sample.wav
    activeSessions,  \* main app: global.activeSessions of the webhook route
    fetches,         \* main app: how often fetchTranscriptPostMeeting was started
    delivered,       \* main app: the event types the webhook route has received
    isRunning,       \* main app: the flag of lib/scheduler.js
    ticks,           \* main app: the invocations of tickScheduler
    store,           \* main app: the scheduled recordings
    now,             \* the minute at which the schedules were last read
    joinCalls,       \* requestBotJoin calls tickScheduler made for a schedule
    joinResults,     \* what the last of these calls returned ("none": no call yet)
    removedAs,       \* why tickScheduler deleted a schedule: "joined", "expired"
    tickLog          \* what invocations of tickScheduler did: "skipped", "threw"

\* the state of the bot service
botVars == <<sessions, rb, hme, lastJoin, pipelineStarts, slotFreed, faults, impl,
             mainApp, transcriptWrites, noAudio>>

\* the state of the webhook route of the main application
hookVars == <<activeSessions, fetches, delivered>>

\* the state of the scheduler of the main application
schedVars == <<isRunning, ticks, store, now, joinCalls, joinResults, removedAs, tickLog>>

appVars == <<hookVars, schedVars>>

vars == <<botVars, appVars>>

\* ------------------------------------------------------------ session data
Terminal == {"completed", "error"}

\* An id the registry has never held.  reg: "new" (never set), "present"
\* (key of the Map), "deleted" (sessions.delete ran; handlers that fetched
\* the object before still hold and write it).  chunks: chunk files in the
\* session's temp directory; ticking: the rotation timer is set;
\* currentFile: the write stream of startRecording ("none" or "open");
\* chunkIndex: the counter of startRecording; elapsed: the minutes the audio
\* stream has been recorded; speakerLog: the names pushed by onSpeakerChange
\* (<<>> also stands for the unset field); monitor: position of
\* monitorSpeakers ("none", "starting", "on", "failed"); sttInput: the files
\* that make up the audio selected for transcription, in order (chunk_00i.wav
\* is i, sample.wav is SampleWav).
NoSession ==
    [reg |-> "new", status |-> "none", meetingId |-> 0, recordAudio |-> FALSE,
     browser |-> "none", transcript |-> "unset", chunks |-> 0, ticking |-> FALSE,
     currentFile |-> "none", chunkIndex |-> 0, elapsed |-> 0,
     speakerLog |-> <<>>, monitor |-> "none", sttInput |-> <<>>]

HmePcs == {"merge", "stt", "notifyReady", "notifyErr", "close"}

NoHme == [p \in HmePcs |-> 0]

\* sessions.has(sessionId)
Present(s) == s \in AllIds /\ sessions[s].reg = "present"

\* s.status !== 'completed' && s.status !== 'error'
IsActive(rec) == rec.status # "completed" /\ rec.status # "error"

ActiveIds == {s \in AllIds : Present(s) /\ IsActive(sessions[s])}

activeBots == Cardinality(ActiveIds)

SetMin(S) == CHOOSE x \in S : \A y \in S : x <= y

\* Map iteration is insertion order; ids are inserted in increasing order.
ActiveForMeeting(mid) == {s \in ActiveIds : sessions[s].meetingId = mid}

\* the capacity test with > written for >=
AtCapacity_OffByOne == activeBots > MAX_BOTS

\* activeBots >= MAX_BOTS
AtCapacity == activeBots >= MAX_BOTS

\* Callers generate a fresh sessionId per request (requestBotJoin); a request
\* may also repeat an id that is still a key of the registry, or carry no
\* sessionId at all (0).
NextId == SetMin({s \in AllIds : sessions[s].reg = "new"} \cup {CapSessions + 1})

JoinIds(n) == {s \in 1..n : Present(s) \/ s = NextId} \cup {0}

InFlight(s) ==
    hme[s]["merge"] + hme[s]["stt"] + hme[s]["notifyReady"] + hme[s]["notifyErr"] + hme[s]["close"]

\* the outcome of the admission decision of POST /join
JoinOutcome(sid, mid) ==
    IF sid = 0 THEN "bad_request"
    ELSE IF ActiveForMeeting(mid) # {} THEN "attached"
    ELSE IF Present(sid) THEN "already_active"
    ELSE IF AtCapacity THEN "BUSY"
    ELSE "initiated"

JoinResponse(sid, mid) ==
    LET o == JoinOutcome(sid, mid) IN
    [status |-> o,
     sessionId |-> IF o = "attached" THEN SetMin(ActiveForMeeting(mid))
                   ELSE IF o \in {"BUSY", "bad_request"} THEN 0 ELSE sid]

\* an invocation slot of tickScheduler that is not running
IdleTick == [pc |-> "idle", queue |-> <<>>, now |-> 0]

\* ------------------------------------------------------------------- Init
\* the main application after start: no tracked session, nothing scheduled
InitMainApp ==
    /\ activeSessions = [s \in AllIds |-> "absent"]
    /\ fetches = [s \in AllIds |-> 0]
    /\ delivered = [s \in AllIds |-> {}]
    /\ isRunning = FALSE
    /\ ticks = [i \in 1..NumTickers |-> IdleTick]
    /\ store = [k \in 1..NumSchedules |-> "unsaved"]
    /\ now = 0
    /\ joinCalls = [k \in 1..NumSchedules |-> 0]
    /\ joinResults = [k \in 1..NumSchedules |-> "none"]
    /\ removedAs = [k \in 1..NumSchedules |-> "none"]
    /\ tickLog = {}

InitRegistry ==
    /\ sessions = [s \in AllIds |-> NoSession]
    /\ rb = [s \in AllIds |-> "idle"]
    /\ hme = [s \in AllIds |-> NoHme]
    /\ lastJoin = [status |-> "none", sessionId |-> 0]
    /\ pipelineStarts = [s \in AllIds |-> 0]
    /\ slotFreed = FALSE
    /\ faults = [s \in AllIds |-> {}]
    /\ transcriptWrites = [s \in AllIds |-> 0]
    /\ noAudio = {}
    /\ InitMainApp

Init == InitRegistry /\ impl = "index" /\ mainApp = "up"

\* ------------------------------------------------------------ POST /join
Join(sid, mid, rec) ==
    /\ lastJoin' = JoinResponse(sid, mid)
    /\ IF JoinOutcome(sid, mid) = "initiated"
       THEN /\ sessions' = [sessions EXCEPT ![sid] =
                   [reg |-> "present", status |-> "joining", meetingId |-> mid,
                    recordAudio |-> rec, browser |-> "none", transcript |-> "unset",
                    chunks |-> 0, ticking |-> FALSE, currentFile |-> "none",
                    chunkIndex |-> 0, elapsed |-> 0,
                    speakerLog |-> <<>>, monitor |-> "none", sttInput |-> <<>>]]
            /\ rb' = [rb EXCEPT ![sid] = "launch"]
            /\ slotFreed' = FALSE
       ELSE UNCHANGED <<sessions, rb, slotFreed>>
    /\ UNCHANGED <<hme, pipelineStarts, faults, impl, mainApp, appVars, transcriptWrites, noAudio>>

\* A status write of 'completed' while exactly MAX_BOTS sessions are active.
FreedBy(s) ==
    IF Present(s) /\ IsActive(sessions[s]) /\ activeBots = MAX_BOTS THEN TRUE ELSE slotFreed

\* --------------------------------------------------------- notifyMainApp
\* how axios.post can settle: resolved (TRUE) or rejected (FALSE)
Deliveries == IF mainApp = "flaky" THEN BOOLEAN ELSE {TRUE}

\* notifyMainApp without its try/catch: a rejected post reaches the caller
NotifyMainApp_Rethrows(ok) == IF ok THEN "returned" ELSE "thrown"

\* notifyMainApp: a rejected post is caught and logged, the call returns
NotifyMainApp(ok) == "returned"

\* the faults after a post for session s settled
Noted(s, ok) == IF ok THEN faults ELSE [faults EXCEPT ![s] = @ \cup {"webhook"}]

\* ---------------------------------------------------------------- runBot
\* launch() resolved: session.browser = browser, then the page is driven.
RunBotLaunched(s) ==
    /\ rb[s] = "launch"
    /\ sessions' = [sessions EXCEPT ![s].browser = "open"]
    /\ rb' = [rb EXCEPT ![s] = "nav"]
    /\ UNCHANGED <<hme, lastJoin, pipelineStarts, slotFreed, faults, impl, mainApp, appVars, transcriptWrites, noAudio>>

\* an awaited step before `session.status = 'joined'` throws: the catch block
\* starts with notifyMainApp('error')
RunBotThrows(s) ==
    /\ rb[s] \in {"launch", "nav"}
    /\ rb' = [rb EXCEPT ![s] = "errNotify"]
    /\ faults' = [faults EXCEPT ![s] = @ \cup {"join"}]
    /\ UNCHANGED <<sessions, hme, lastJoin, pipelineStarts, slotFreed, impl, mainApp, appVars, transcriptWrites, noAudio>>

\* the join button was clicked on a live page
RunBotJoined(s) ==
    /\ rb[s] = "nav"
    /\ sessions[s].browser = "open"
    /\ sessions' = [sessions EXCEPT ![s].status = "joined"]
    /\ rb' = [rb EXCEPT ![s] = "notifyJoined"]
    /\ UNCHANGED <<hme, lastJoin, pipelineStarts, slotFreed, faults, impl, mainApp, appVars, transcriptWrites, noAudio>>

\* startRecording called for every session
RecordsAudio_Always(rec) == TRUE

\* if (session.recordAudio)
RecordsAudio(rec) == rec.recordAudio

\* monitorSpeakers up to its first await: session.speakerLog = []
MonitorStarted(rec) == [rec EXCEPT !.speakerLog = <<>>, !.monitor = "starting"]

\* after notifyMainApp('joined'): monitorSpeakers is called (not awaited),
\* then startRecording runs when recordAudio
\* (index.js writes 'recording' at once, the backup first awaits
\* page.evaluate); an exception thrown by the call would enter runBot's catch
RunBotAfterJoinedOn(s, outcome) ==
    IF outcome = "thrown"
    THEN /\ rb' = [rb EXCEPT ![s] = "errNotify"]
         /\ UNCHANGED sessions
    ELSE IF RecordsAudio(sessions[s])
    THEN IF impl = "index"
         THEN /\ sessions' = [sessions EXCEPT ![s] =
                                  [MonitorStarted(@) EXCEPT !.status = "recording"]]
              /\ rb' = [rb EXCEPT ![s] = "notifyRec"]
         ELSE /\ rb' = [rb EXCEPT ![s] = "verify"]
              /\ sessions' = [sessions EXCEPT ![s] = MonitorStarted(@)]
    ELSE /\ rb' = [rb EXCEPT ![s] = "done"]
         /\ sessions' = [sessions EXCEPT ![s] = MonitorStarted(@)]

\* the post of notifyMainApp('joined') settled
RunBotAfterJoined(s) ==
    /\ rb[s] = "notifyJoined"
    /\ \E ok \in Deliveries :
         /\ faults' = Noted(s, ok)
         /\ RunBotAfterJoinedOn(s, NotifyMainApp(ok))
    /\ UNCHANGED <<hme, lastJoin, pipelineStarts, slotFreed, impl, mainApp, appVars, transcriptWrites, noAudio>>

\* backup: the in-meeting verification returned or threw (caught)
RunBotVerified(s) ==
    /\ rb[s] = "verify"
    /\ sessions' = [sessions EXCEPT ![s].status = "recording"]
    /\ rb' = [rb EXCEPT ![s] = "notifyRec"]
    /\ UNCHANGED <<hme, lastJoin, pipelineStarts, slotFreed, faults, impl, mainApp, appVars, transcriptWrites, noAudio>>

\* after notifyMainApp('recording_started'): getStream is awaited; the call
\* is outside startRecording's try, an exception would reach runBot's catch
RunBotRecNotifiedOn(s, outcome) ==
    rb' = [rb EXCEPT ![s] = IF outcome = "thrown" THEN "errNotify" ELSE "getStream"]

\* the post of notifyMainApp('recording_started') settled
RunBotRecNotified(s) ==
    /\ rb[s] = "notifyRec"
    /\ \E ok \in Deliveries :
         /\ faults' = Noted(s, ok)
         /\ RunBotRecNotifiedOn(s, NotifyMainApp(ok))
    /\ UNCHANGED <<sessions, hme, lastJoin, pipelineStarts, slotFreed, impl, mainApp, appVars, transcriptWrites, noAudio>>

\* the catch block of startRecording writing 'error'
StreamFailed_Error(rec) == [rec EXCEPT !.status = "error"]

\* what the catch block of startRecording does to the session record
StreamFailed(rec) == rec

\* getStream resolved (startNewChunk opens the first chunk file, the rotation
\* timer is set) or threw (caught)
RunBotStream(s) ==
    /\ rb[s] = "getStream"
    /\ rb' = [rb EXCEPT ![s] = "done"]
    /\ \E ok \in BOOLEAN :
         /\ ok => sessions[s].browser = "open"
         /\ IF ok
            THEN /\ sessions' = [sessions EXCEPT ![s].chunks = 1, ![s].ticking = TRUE,
                                                  ![s].currentFile = "open",
                                                  ![s].chunkIndex = @ + 1]
                 /\ UNCHANGED faults
            ELSE /\ sessions' = [sessions EXCEPT ![s] = StreamFailed(@)]
                 /\ faults' = [faults EXCEPT ![s] = @ \cup {"stream"}]
    /\ UNCHANGED <<hme, lastJoin, pipelineStarts, slotFreed, impl, mainApp, appVars, transcriptWrites, noAudio>>

\* the setInterval callback of startRecording; startNewChunk ends the
\* current chunk file and opens the next, so one write stream stays open
Rotate(s) ==
    /\ sessions[s].ticking
    /\ IF sessions[s].status # "recording"
       THEN sessions' = [sessions EXCEPT ![s].ticking = FALSE]
       ELSE /\ sessions[s].chunks < MaxChunks
            /\ sessions' = [sessions EXCEPT ![s].chunks = @ + 1, ![s].chunkIndex = @ + 1]
    /\ UNCHANGED <<rb, hme, lastJoin, pipelineStarts, slotFreed, faults, impl, mainApp, appVars, transcriptWrites, noAudio>>

\* monitorSpeakers: the participant list was opened, onSpeakerChange is
\* exposed and the observer installed
MonitorReady(s) ==
    /\ sessions[s].monitor = "starting"
    /\ sessions[s].browser = "open"
    /\ sessions' = [sessions EXCEPT ![s].monitor = "on"]
    /\ UNCHANGED <<rb, hme, lastJoin, pipelineStarts, slotFreed, faults, impl, mainApp, appVars, transcriptWrites, noAudio>>

\* monitorSpeakers: click, exposeFunction or evaluate threw (caught, logged)
MonitorFails(s) ==
    /\ sessions[s].monitor = "starting"
    /\ sessions' = [sessions EXCEPT ![s].monitor = "failed"]
    /\ UNCHANGED <<rb, hme, lastJoin, pipelineStarts, slotFreed, faults, impl, mainApp, appVars, transcriptWrites, noAudio>>

\* the onSpeakerChange callback: a name other than the last one is pushed
SpeakerLogged(rec, name) ==
    IF rec.speakerLog = <<>> \/ rec.speakerLog[Len(rec.speakerLog)] # name
    THEN [rec EXCEPT !.speakerLog = Append(@, name)]
    ELSE rec

\* the page reports an active speaker (the post of 'speaker_change' is not
\* awaited)
SpeakerChange(s, name) ==
    /\ sessions[s].monitor = "on"
    /\ sessions[s].browser = "open"
    /\ Len(sessions[s].speakerLog) < MaxSpeakerLog
    /\ sessions' = [sessions EXCEPT ![s] = SpeakerLogged(@, name)]
    /\ UNCHANGED <<rb, hme, lastJoin, pipelineStarts, slotFreed, faults, impl, mainApp, appVars, transcriptWrites, noAudio>>

\* setInterval(..., 5 * 60 * 1000): minutes between two firings of the timer
ChunkMinutes == 5

\* the timer of startRecording has a firing that is due and has not run
RotationDue(s) ==
    /\ sessions[s].ticking
    /\ sessions[s].elapsed >= sessions[s].chunkIndex * ChunkMinutes

\* the timer fires when its interval has passed
TimedRotate(s) == RotationDue(s) /\ Rotate(s)

\* a minute of recording passes; a firing that is due runs within its minute
Tick(s) ==
    /\ sessions[s].status = "recording"
    /\ sessions[s].ticking
    /\ ~RotationDue(s)
    /\ sessions[s].elapsed < MaxMinutes
    /\ sessions' = [sessions EXCEPT ![s].elapsed = @ + 1]
    /\ UNCHANGED <<rb, hme, lastJoin, pipelineStarts, slotFreed, faults, impl, mainApp, appVars, transcriptWrites, noAudio>>

\* backup: runBot has registered page.on('close') and checkKickedInterval
Watching(s) ==
    /\ impl = "backup"
    /\ rb[s] \in {"verify", "notifyRec", "getStream", "done"}
    /\ sessions[s].browser = "open"

\* backup: the page was closed from outside; page.on('close') posts
\* 'bot_kicked' and does nothing else
PageClosed(s) ==
    /\ Watching(s)
    /\ sessions' = [sessions EXCEPT ![s].browser = "closed"]
    /\ \E ok \in Deliveries :
         faults' = [Noted(s, ok) EXCEPT ![s] = @ \cup {"closed"}]
    /\ UNCHANGED <<rb, hme, lastJoin, pipelineStarts, slotFreed, impl, mainApp, appVars, transcriptWrites, noAudio>>

\* backup: checkKickedInterval found the "removed" text: it posts
\* 'bot_kicked', clears itself and closes the browser (the segments between
\* its awaits touch nothing of the session, they are one step here)
KickDetected(s) ==
    /\ Watching(s)
    /\ sessions' = [sessions EXCEPT ![s].browser = "closed"]
    /\ \E ok \in Deliveries :
         faults' = [Noted(s, ok) EXCEPT ![s] = @ \cup {"kicked"}]
    /\ UNCHANGED <<rb, hme, lastJoin, pipelineStarts, slotFreed, impl, mainApp, appVars, transcriptWrites, noAudio>>

\* what the end of runBot's catch block does to the session record
RunBotFailed(rec) == [rec EXCEPT !.reg = "deleted"]

\* catch, after notifyMainApp('error'): the browser is closed if there is
\* one and the session is deleted; an exception thrown by the call would
\* reject runBot (the backup's .catch then writes 'error')
RunBotErrNotifiedOn(s, outcome) ==
    IF outcome = "thrown"
    THEN /\ rb' = [rb EXCEPT ![s] = "rejected"]
         /\ sessions' = IF impl = "backup" /\ Present(s)
                         THEN [sessions EXCEPT ![s].status = "error"]
                         ELSE sessions
    ELSE IF sessions[s].browser # "none"
    THEN /\ rb' = [rb EXCEPT ![s] = "errClose"]
         /\ UNCHANGED sessions
    ELSE /\ rb' = [rb EXCEPT ![s] = "failed"]
         /\ sessions' = [sessions EXCEPT ![s] = RunBotFailed(@)]

\* catch: the post of notifyMainApp('error') settled
RunBotErrNotified(s) ==
    /\ rb[s] = "errNotify"
    /\ \E ok \in Deliveries :
         /\ faults' = Noted(s, ok)
         /\ RunBotErrNotifiedOn(s, NotifyMainApp(ok))
    /\ UNCHANGED <<hme, lastJoin, pipelineStarts, slotFreed, impl, mainApp, appVars, transcriptWrites, noAudio>>

\* catch: browser.close() resolved
RunBotErrClosed(s) ==
    /\ rb[s] = "errClose"
    /\ rb' = [rb EXCEPT ![s] = "failed"]
    /\ sessions' = [sessions EXCEPT ![s] = RunBotFailed([@ EXCEPT !.browser = "closed"])]
    /\ UNCHANGED <<hme, lastJoin, pipelineStarts, slotFreed, faults, impl, mainApp, appVars, transcriptWrites, noAudio>>

\* catch: browser.close() rejected: runBot rejects before sessions.delete (in
\* the backup the .catch of the /join route then writes 'error')
RunBotErrCloseFails(s) ==
    /\ rb[s] = "errClose"
    /\ rb' = [rb EXCEPT ![s] = "rejected"]
    /\ sessions' = IF impl = "backup" /\ Present(s)
                    THEN [sessions EXCEPT ![s].status = "error"]
                    ELSE sessions
    /\ faults' = [faults EXCEPT ![s] = @ \cup {"cleanup"}]
    /\ UNCHANGED <<hme, lastJoin, pipelineStarts, slotFreed, impl, mainApp, appVars, transcriptWrites, noAudio>>

\* ------------------------------------------- POST /leave, handleMeetingEnd
\* the guard widened to a session that is already being processed
ShouldProcess_Reentrant(rec) == rec.status \in {"recording", "processing"}

\* the guard of the processing block
ShouldProcess(rec) == rec.status = "recording"

\* after the processing block: close the browser if there is one, complete
HmeTail(s, sess, h) ==
    IF sess[s].browser # "none"
    THEN /\ hme' = [h EXCEPT ![s]["close"] = @ + 1]
         /\ sessions' = sess
         /\ UNCHANGED slotFreed
    ELSE /\ hme' = h
         /\ sessions' = [sess EXCEPT ![s].status = "completed"]
         /\ slotFreed' = FreedBy(s)

\* the transcript written when there is no audio source
Simulated == "simulated"

\* path.join(__dirname, 'sample.wav'), a file that is no chunk of a session
SampleWav == 0

\* String(chunkIndex): the decimal digits
RECURSIVE Digits(_)
Digits(i) == IF i < 10 THEN <<i>> ELSE Append(Digits(i \div 10), i % 10)

\* .padStart(3, '0')
RECURSIVE PadStart3(_)
PadStart3(d) == IF Len(d) >= 3 THEN d ELSE PadStart3(<<0>> \o d)

\* the digits in the file name chunk_NNN.wav of chunk i
ChunkName(i) == PadStart3(Digits(i))

\* the order of Array.prototype.sort() on two chunk paths: by the first
\* character that differs; a name that ends first is followed by '.', which
\* sorts before every digit
NameBefore(a, b) ==
    \E k \in 1..Len(a) + 1 :
        /\ k <= Len(b)
        /\ \A j \in 1..(k - 1) : a[j] = b[j]
        /\ k > Len(a) \/ a[k] < b[k]

\* backup: readdirSync(meetingDir), the .wav files, sorted by path
SortedChunks(files) ==
    CHOOSE q \in [1..files -> 1..files] :
        \A i, j \in 1..files : i < j => NameBefore(ChunkName(q[i]), ChunkName(q[j]))

\* index.js with 'processing' written only behind the awaited STT call
ProcessIndex_StatusAfterAwait(s) ==
    \E sampleExists \in BOOLEAN :
        IF sampleExists
        THEN /\ sessions' = [sessions EXCEPT ![s].sttInput = <<SampleWav>>]
             /\ hme' = [hme EXCEPT ![s]["stt"] = @ + 1]
             /\ UNCHANGED <<transcriptWrites, noAudio>>
        ELSE /\ sessions' = [sessions EXCEPT ![s].status = "processing",
                                              ![s].transcript = Simulated]
             /\ hme' = [hme EXCEPT ![s]["notifyReady"] = @ + 1]
             /\ transcriptWrites' = [transcriptWrites EXCEPT ![s] = @ + 1]
             /\ noAudio' = IF sessions[s].chunks = 0 THEN noAudio \cup {s} ELSE noAudio

\* index.js: sample.wav goes to STT, else a transcript is simulated
ProcessIndex(s) ==
    \E sampleExists \in BOOLEAN :
        IF sampleExists
        THEN /\ sessions' = [sessions EXCEPT ![s].status = "processing",
                                              ![s].sttInput = <<SampleWav>>]
             /\ hme' = [hme EXCEPT ![s]["stt"] = @ + 1]
             /\ UNCHANGED <<transcriptWrites, noAudio>>
        ELSE /\ sessions' = [sessions EXCEPT ![s].status = "processing",
                                              ![s].transcript = Simulated]
             /\ hme' = [hme EXCEPT ![s]["notifyReady"] = @ + 1]
             /\ transcriptWrites' = [transcriptWrites EXCEPT ![s] = @ + 1]
             /\ noAudio' = IF sessions[s].chunks = 0 THEN noAudio \cup {s} ELSE noAudio

\* backup: the timer is cleared; several chunks are merged, one chunk is
\* used as it is, none falls back to sample.wav or to a simulated transcript
ProcessBackup(s) ==
    LET files == sessions[s].chunks
        sess == [sessions EXCEPT ![s].status = "processing", ![s].ticking = FALSE]
    IN  IF files > 1
        THEN /\ sessions' = [sess EXCEPT ![s].sttInput = SortedChunks(files)]
             /\ hme' = [hme EXCEPT ![s]["merge"] = @ + 1]
             /\ UNCHANGED <<transcriptWrites, noAudio>>
        ELSE IF files = 1
        THEN /\ sessions' = [sess EXCEPT ![s].sttInput = SortedChunks(files)]
             /\ hme' = [hme EXCEPT ![s]["stt"] = @ + 1]
             /\ UNCHANGED <<transcriptWrites, noAudio>>
        ELSE \E sampleExists \in BOOLEAN :
                IF sampleExists
                THEN /\ sessions' = [sess EXCEPT ![s].sttInput = <<SampleWav>>]
                     /\ hme' = [hme EXCEPT ![s]["stt"] = @ + 1]
                     /\ UNCHANGED <<transcriptWrites, noAudio>>
                ELSE /\ sessions' = [sess EXCEPT ![s].transcript = Simulated]
                     /\ hme' = [hme EXCEPT ![s]["notifyReady"] = @ + 1]
                     /\ transcriptWrites' = [transcriptWrites EXCEPT ![s] = @ + 1]
                     /\ noAudio' = noAudio \cup {s}

\* POST /leave/:sessionId up to the first await of handleMeetingEnd
Leave(s) ==
    /\ Present(s)
    /\ InFlight(s) < MaxLeaves
    /\ IF ShouldProcess(sessions[s])
       THEN /\ pipelineStarts' = [pipelineStarts EXCEPT ![s] = @ + 1]
            /\ IF impl = "index" THEN ProcessIndex(s) ELSE ProcessBackup(s)
            /\ UNCHANGED slotFreed
       ELSE /\ HmeTail(s, sessions, hme)
            /\ UNCHANGED <<pipelineStarts, transcriptWrites, noAudio>>
    /\ UNCHANGED <<rb, lastJoin, faults, impl, mainApp, appVars>>

\* backup: ffmpeg merged the chunks; the merged file goes to STT
HmeMergeOk(s) ==
    /\ hme[s]["merge"] > 0
    /\ hme' = [hme EXCEPT ![s]["merge"] = @ - 1, ![s]["stt"] = @ + 1]
    /\ UNCHANGED <<sessions, rb, lastJoin, pipelineStarts, slotFreed, faults, impl, mainApp, appVars, transcriptWrites, noAudio>>

\* what the catch block of handleMeetingEnd does to the session record
HmeCaught(rec) == rec

\* backup: ffmpeg reported an error: catch, notifyMainApp('error')
HmeMergeFails(s) ==
    /\ hme[s]["merge"] > 0
    /\ hme' = [hme EXCEPT ![s]["merge"] = @ - 1, ![s]["notifyErr"] = @ + 1]
    /\ sessions' = [sessions EXCEPT ![s] = HmeCaught(@)]
    /\ faults' = [faults EXCEPT ![s] = @ \cup {"merge"}]
    /\ UNCHANGED <<rb, lastJoin, pipelineStarts, slotFreed, impl, mainApp, appVars, transcriptWrites, noAudio>>

\* processAudioThroughSTT resolved
HmeSttOk(s) ==
    /\ hme[s]["stt"] > 0
    /\ sessions' = [sessions EXCEPT ![s].transcript = "stt"]
    /\ hme' = [hme EXCEPT ![s]["stt"] = @ - 1, ![s]["notifyReady"] = @ + 1]
    /\ transcriptWrites' = [transcriptWrites EXCEPT ![s] = @ + 1]
    /\ UNCHANGED <<rb, lastJoin, pipelineStarts, slotFreed, faults, impl, mainApp, appVars, noAudio>>

\* processAudioThroughSTT rejected: catch, notifyMainApp('error')
HmeSttFails(s) ==
    /\ hme[s]["stt"] > 0
    /\ sessions' = [sessions EXCEPT ![s] = HmeCaught(@)]
    /\ hme' = [hme EXCEPT ![s]["stt"] = @ - 1, ![s]["notifyErr"] = @ + 1]
    /\ faults' = [faults EXCEPT ![s] = @ \cup {"stt"}]
    /\ UNCHANGED <<rb, lastJoin, pipelineStarts, slotFreed, impl, mainApp, appVars, transcriptWrites, noAudio>>

\* after notifyMainApp('transcript_ready'): the temp directory is removed;
\* the call is inside the try, an exception would enter the catch
HmeReadyNotifiedOn(s, outcome) ==
    IF outcome = "thrown"
    THEN /\ hme' = [hme EXCEPT ![s]["notifyReady"] = @ - 1, ![s]["notifyErr"] = @ + 1]
         /\ sessions' = [sessions EXCEPT ![s] = HmeCaught(@)]
         /\ UNCHANGED slotFreed
    ELSE HmeTail(s, [sessions EXCEPT ![s].chunks = 0], [hme EXCEPT ![s]["notifyReady"] = @ - 1])

\* the post of notifyMainApp('transcript_ready') settled
HmeReadyNotified(s) ==
    /\ hme[s]["notifyReady"] > 0
    /\ \E ok \in Deliveries :
         /\ faults' = Noted(s, ok)
         /\ HmeReadyNotifiedOn(s, NotifyMainApp(ok))
    /\ UNCHANGED <<rb, lastJoin, pipelineStarts, impl, mainApp, appVars, transcriptWrites, noAudio>>

\* catch, after notifyMainApp('error'): the handler goes on behind the
\* processing block; an exception thrown by the call would end the handler
HmeErrNotifiedOn(s, outcome) ==
    IF outcome = "thrown"
    THEN /\ hme' = [hme EXCEPT ![s]["notifyErr"] = @ - 1]
         /\ UNCHANGED <<sessions, slotFreed>>
    ELSE HmeTail(s, sessions, [hme EXCEPT ![s]["notifyErr"] = @ - 1])

\* catch: the post of notifyMainApp('error') settled
HmeErrNotified(s) ==
    /\ hme[s]["notifyErr"] > 0
    /\ \E ok \in Deliveries :
         /\ faults' = Noted(s, ok)
         /\ HmeErrNotifiedOn(s, NotifyMainApp(ok))
    /\ UNCHANGED <<rb, lastJoin, pipelineStarts, impl, mainApp, appVars, transcriptWrites, noAudio>>

\* session.browser.close() resolved
HmeClosed(s) ==
    /\ hme[s]["close"] > 0
    /\ hme' = [hme EXCEPT ![s]["close"] = @ - 1]
    /\ sessions' = [sessions EXCEPT ![s].browser = "closed", ![s].status = "completed"]
    /\ slotFreed' = FreedBy(s)
    /\ UNCHANGED <<rb, lastJoin, pipelineStarts, faults, impl, mainApp, appVars, transcriptWrites, noAudio>>

\* session.browser.close() rejected: handleMeetingEnd rejects before its
\* last statement
HmeCloseFails(s) ==
    /\ hme[s]["close"] > 0
    /\ hme' = [hme EXCEPT ![s]["close"] = @ - 1]
    /\ faults' = [faults EXCEPT ![s] = @ \cup {"cleanup"}]
    /\ UNCHANGED <<sessions, rb, lastJoin, pipelineStarts, slotFreed, impl, mainApp, appVars, transcriptWrites, noAudio>>

\* ------------------------------------------------------------- GET routes
\* GET /status/:sessionId
GetStatus(s) ==
    IF ~Present(s) THEN [code |-> 404, status |-> "Session not found"]
    ELSE [code |-> 200, status |-> sessions[s].status]

\* session.transcript || []  (the number of entries; a transcript returned
\* by the STT service is taken to have one)
TranscriptEntries(rec) ==
    IF rec.transcript = "unset" THEN 0
    ELSE IF rec.transcript = "simulated" THEN 2
    ELSE 1

\* GET /transcript/:sessionId
GetTranscript(s) ==
    IF ~Present(s) THEN [code |-> 404, status |-> "Session not found", entries |-> 0]
    ELSE [code |-> 200, status |-> sessions[s].status,
          entries |-> TranscriptEntries(sessions[s])]

\* ------------------------------------------- lib/bot-service.js (caller)
\* the HTTP status of each answer of POST /join
JoinHttpStatus(resp) ==
    IF resp.status = "BUSY" THEN 429
    ELSE IF resp.status = "bad_request" THEN 400
    ELSE 200

\* response.ok
HttpOk(code) == code >= 200 /\ code <= 299

\* err.message of new Error(`Bot service error: ${response.status}`)
BotServiceError(code) == <<"Bot service error: ", code>>

\* what requestBotJoin returns when fetch resolved with `code` and body `resp`
RequestBotJoin(sid, code, resp) ==
    IF ~HttpOk(code)
    THEN [sessionId |-> sid, status |-> "error", error |-> BotServiceError(code)]
    ELSE [sessionId |-> IF resp.sessionId # 0 THEN resp.sessionId ELSE sid,
          status |-> resp.status, error |-> <<>>]

\* what requestBotJoin returns when fetch rejected with err.message `msg`
RequestBotJoinRejected(sid, msg) ==
    [sessionId |-> sid, status |-> "error", error |-> <<msg>>]

\* the JSON body requestBotJoin posts to /join: sessionId, joinUrl,
\* meetingId, disclosureMessage and sttProvider (joinUrl and
\* disclosureMessage play no part here); nothing else of `options` is copied
JoinRequestBody(sid, options) ==
    [sessionId |-> sid, meetingId |-> options.meetingId, sttProvider |-> "whisper"]

\* const { recordAudio } = req.body, as `if (session.recordAudio)` sees it:
\* a field that is absent is undefined
BodyRecordAudio(body) ==
    IF "recordAudio" \in DOMAIN body THEN body.recordAudio ELSE FALSE

\* requestBotJoin(joinUrl, options) with BOT_SERVICE_URL set, as tickScheduler
\* (recordAudio: true) and processMeeting (recordAudio: !canUseGraph) call it:
\* the body is posted and /join handles it
AppRequestJoin(sid, options) ==
    Join(sid, JoinRequestBody(sid, options).meetingId,
         BodyRecordAudio(JoinRequestBody(sid, options)))

\* ------------------------------------- main app: POST /api/bot/webhook
\* the lifecycle events the bot service posts
EventTypes == {"joined", "recording_started", "transcript_ready", "error"}

\* what the route does to the entry of the session in global.activeSessions
\* ("absent": no key): only 'joined' creates an entry, 'joined' writes
\* 'joining', 'recording_started' writes 'recording', 'meeting_ended' and
\* 'error' delete the entry, any other event stores it back as it is
Received(current, type) ==
    IF current = "absent" /\ type # "joined" THEN "absent"
    ELSE IF type \in {"meeting_ended", "error"} THEN "absent"
    ELSE IF type = "joined" THEN "joining"
    ELSE IF type = "recording_started" THEN "recording"
    ELSE current

\* if (event.type === 'meeting_ended' || event.type === 'transcript_ready')
StartsFetch(type) == type \in {"meeting_ended", "transcript_ready"}

\* POST /api/bot/webhook with {type, sessionId}; sessionId 0 is a payload
\* without sessionId (answered 400).  The map is updated without an await in
\* between, then fetchTranscriptPostMeeting is called and awaited.
WebhookPost(s, type) ==
    /\ IF s = 0
       THEN UNCHANGED hookVars
       ELSE /\ StartsFetch(type) => fetches[s] < MaxFetches
            /\ activeSessions' = [activeSessions EXCEPT ![s] = Received(@, type)]
            /\ fetches' = [fetches EXCEPT ![s] = IF StartsFetch(type) THEN @ + 1 ELSE @]
            /\ delivered' = [delivered EXCEPT ![s] = @ \cup {type}]
    /\ UNCHANGED <<botVars, schedVars>>

\* ------------------------------------------- main app: lib/scheduler.js
\* new Date(schedule.start), in minutes
StartOf(k) == FirstStart

\* diffMinutes = (meetingTime - now) / 60000
DiffMinutes(k, t) == StartOf(k) - t

\* diffMinutes <= 2 && diffMinutes >= -30
InWindow(k, t) == DiffMinutes(k, t) <= 2 /\ DiffMinutes(k, t) >= -30

\* diffMinutes < -30
Expired(k, t) == DiffMinutes(k, t) < -30

\* the instants at which a tick samples the clock: before the window, at its
\* first and last minute, behind it
Instants == {0, FirstStart - 2, FirstStart + 30, MaxNow}

\* getScheduledRecordings(): the stored schedules, in the order of their ids
RECURSIVE StoredFrom(_)
StoredFrom(k) ==
    IF k > NumSchedules THEN <<>>
    ELSE IF store[k] = "stored" THEN <<k>> \o StoredFrom(k + 1)
    ELSE StoredFrom(k + 1)

\* the for loop passing the schedules that are neither due nor expired
RECURSIVE SkipFuture(_, _)
SkipFuture(q, t) ==
    IF q = <<>> THEN q
    ELSE IF InWindow(Head(q), t) \/ Expired(Head(q), t) THEN q
    ELSE SkipFuture(Tail(q), t)

\* the guard removed: every invocation goes on
Guarded_Never(running) == FALSE

\* if (isRunning) return
Guarded(running) == running

\* tickScheduler() is called: it returns at once while another invocation is
\* running, else sets the flag and awaits getScheduledRecordings()
TickInvoke(i) ==
    /\ ticks[i].pc = "idle"
    /\ IF Guarded(isRunning)
       THEN /\ tickLog' = tickLog \cup {"skipped"}
            /\ UNCHANGED <<isRunning, ticks>>
       ELSE /\ isRunning' = TRUE
            /\ ticks' = [ticks EXCEPT ![i].pc = "read"]
            /\ UNCHANGED tickLog

\* the timer of initScheduler fires
IntervalTick(i) ==
    /\ TickInvoke(i)
    /\ UNCHANGED <<botVars, hookVars, store, now, joinCalls, joinResults, removedAs>>

\* POST /api/schedule: the meeting is saved, then tickScheduler() is called
\* and not awaited
SchedulePost(k, i) ==
    /\ store[k] = "unsaved"
    /\ store' = [store EXCEPT ![k] = "stored"]
    /\ TickInvoke(i)
    /\ UNCHANGED <<botVars, hookVars, now, joinCalls, joinResults, removedAs>>

\* the loop of invocation i goes on with the schedules q at minute t: it
\* awaits requestBotJoin for the next due schedule, or the deletion of the
\* next expired one, or ends (finally: the flag is cleared)
TickGoesOn(i, q, t) ==
    LET rest == SkipFuture(q, t) IN
    IF rest = <<>>
    THEN /\ ticks' = [ticks EXCEPT ![i] = IdleTick]
         /\ isRunning' = FALSE
         /\ UNCHANGED joinCalls
    ELSE IF InWindow(Head(rest), t)
    THEN /\ joinCalls[Head(rest)] < MaxJoinCalls
         /\ ticks' = [ticks EXCEPT ![i] = [pc |-> "join", queue |-> rest, now |-> t]]
         /\ joinCalls' = [joinCalls EXCEPT ![Head(rest)] = @ + 1]
         /\ UNCHANGED isRunning
    ELSE /\ ticks' = [ticks EXCEPT ![i] = [pc |-> "delete", queue |-> rest, now |-> t]]
         /\ UNCHANGED <<isRunning, joinCalls>>

\* getScheduledRecordings() resolved; now = new Date()
TickRead(i) ==
    /\ ticks[i].pc = "read"
    /\ \E t \in Instants :
         /\ t >= now
         /\ now' = t
         /\ TickGoesOn(i, StoredFrom(1), t)
    /\ UNCHANGED <<botVars, hookVars, store, joinResults, removedAs, tickLog>>

\* the schedule is deleted only after a join that did not fail
DeletesAfterJoin_OnlyIfJoined(result) == result \in {"initiated", "attached"}

\* the deletion follows the join unconditionally
DeletesAfterJoin(result) == TRUE

\* what requestBotJoin returns to the scheduler: the status of the /join
\* answer, or 'error' (BUSY: 'error' with "Bot service error: 429")
JoinAnswers == {"initiated", "attached", "error", "BUSY"}

\* requestBotJoin returned (it catches its own errors):
\* deleteScheduledRecording is awaited
TickJoined(i, result) ==
    /\ ticks[i].pc = "join"
    /\ joinResults' = [joinResults EXCEPT ![Head(ticks[i].queue)] = result]
    /\ IF DeletesAfterJoin(result)
       THEN /\ ticks' = [ticks EXCEPT ![i].pc = "delete"]
            /\ UNCHANGED <<isRunning, joinCalls>>
       ELSE TickGoesOn(i, Tail(ticks[i].queue), ticks[i].now)
    /\ UNCHANGED <<botVars, hookVars, store, now, removedAs, tickLog>>

\* deleteScheduledRecording resolved: the loop goes on
TickDeleted(i) ==
    LET k == Head(ticks[i].queue) IN
    /\ ticks[i].pc = "delete"
    /\ store' = [store EXCEPT ![k] = "deleted"]
    /\ removedAs' = [removedAs EXCEPT ![k] =
                        IF InWindow(k, ticks[i].now) THEN "joined" ELSE "expired"]
    /\ TickGoesOn(i, Tail(ticks[i].queue), ticks[i].now)
    /\ UNCHANGED <<botVars, hookVars, now, joinResults, tickLog>>

\* catch and finally of tickScheduler
TickThrew(i) ==
    /\ ticks' = [ticks EXCEPT ![i] = IdleTick]
    /\ isRunning' = FALSE
    /\ tickLog' = tickLog \cup {"threw"}
    /\ UNCHANGED <<botVars, hookVars, store, now, joinCalls, joinResults, removedAs>>

\* getScheduledRecordings() rejected
TickReadFails(i) == ticks[i].pc = "read" /\ TickThrew(i)

\* deleteScheduledRecording() rejected
TickDeleteFails(i) == ticks[i].pc = "delete" /\ TickThrew(i)

\* ------------------------------------------------------------------- Next
BotStep(s) ==
    \/ RunBotLaunched(s)
    \/ RunBotThrows(s)
    \/ RunBotJoined(s)
    \/ RunBotAfterJoined(s)
    \/ RunBotRecNotified(s)
    \/ RunBotStream(s)
    \/ RunBotErrNotified(s)
    \/ RunBotErrClosed(s)

EndStep(s) ==
    \/ HmeSttOk(s)
    \/ HmeSttFails(s)
    \/ HmeReadyNotified(s)
    \/ HmeErrNotified(s)
    \/ HmeClosed(s)

Next ==
    \/ \E sid \in JoinIds(NumSessions), mid \in 1..NumMeetings, rec \in BOOLEAN : Join(sid, mid, rec)
    \/ \E s \in 1..NumSessions : Leave(s)
    \/ \E s \in 1..NumSessions : BotStep(s)
    \/ \E s \in 1..NumSessions : EndStep(s)

Spec == Init /\ [][Next]_vars

\* The capacity scenario: every request is for a meeting of its own and
\* without audio recording, joins succeed, and only the first CapLeaveIds
\* sessions are asked to leave.
NextCap ==
    \/ \E sid \in JoinIds(CapSessions) : Join(sid, sid, FALSE)
    \/ \E s \in 1..CapLeaveIds : Leave(s)
    \/ \E s \in AllIds : RunBotLaunched(s) \/ RunBotJoined(s) \/ RunBotAfterJoined(s)
    \/ \E s \in AllIds : HmeClosed(s)

SpecCap == Init /\ [][NextCap]_vars

\* The end-of-meeting scenario: the sessions of one meeting, with and
\* without audio recording, and /leave requests that overlap.
NextEnd ==
    \/ \E sid \in JoinIds(EndSessions), rec \in BOOLEAN : Join(sid, 1, rec)
    \/ \E s \in 1..EndSessions : Leave(s)
    \/ \E s \in 1..EndSessions : BotStep(s)
    \/ \E s \in 1..EndSessions : EndStep(s)

SpecEnd == Init /\ [][NextEnd]_vars

\* a sessionId generated for a request, as requestBotJoin does
FreshIds(n) == {NextId} \cap (1..n)

\* The life of the sessions of one meeting, with and without audio
\* recording, when every /join carries a fresh sessionId.
NextLife ==
    \/ \E sid \in FreshIds(EndSessions), rec \in BOOLEAN : Join(sid, 1, rec)
    \/ \E s \in 1..EndSessions : Leave(s)
    \/ \E s \in 1..EndSessions : BotStep(s)
    \/ \E s \in 1..EndSessions : EndStep(s)

SpecLife == Init /\ [][NextLife]_vars

\* The same with a webhook receiver that is unreliable: every post of
\* notifyMainApp may be rejected.
InitFlaky == InitRegistry /\ impl = "index" /\ mainApp = "flaky"

SpecFlaky == InitFlaky /\ [][NextLife]_vars

\* The awaited browser calls of runBot before 'joined' (launch, newPage,
\* goto, waitForSelector, click): each settles, by resolving or by throwing
\* when its timeout expires.
JoinStep(s) == RunBotLaunched(s) \/ RunBotThrows(s) \/ RunBotJoined(s)

\* The end-of-meeting scenario with the progress the code provides: the
\* browser calls settle within their timeouts and browser.close() settles.
\* axios.post is called without a timeout, so nothing is assumed about when
\* a post of notifyMainApp settles.
FairJoin ==
    \A s \in 1..EndSessions :
        /\ WF_vars(JoinStep(s))
        /\ WF_vars(RunBotErrClosed(s))
        /\ WF_vars(HmeClosed(s))

SpecJoinFair == Init /\ [][NextEnd]_vars /\ FairJoin

\* The recording scenario: index.js records the sessions of one meeting and
\* the rotation timer fires.
NextRec ==
    \/ \E sid \in JoinIds(EndSessions) : Join(sid, 1, TRUE)
    \/ \E s \in 1..EndSessions : Leave(s)
    \/ \E s \in 1..EndSessions : BotStep(s) \/ Rotate(s)
    \/ \E s \in 1..EndSessions : EndStep(s)

SpecRec == Init /\ [][NextRec]_vars

\* The timed recording scenario: index.js records one meeting while the
\* minutes pass and the rotation timer fires when it is due.
NextClock ==
    \/ \E sid \in FreshIds(EndSessions) : Join(sid, 1, TRUE)
    \/ \E s \in 1..EndSessions : Leave(s)
    \/ \E s \in 1..EndSessions : BotStep(s) \/ TimedRotate(s) \/ Tick(s)
    \/ \E s \in 1..EndSessions : EndStep(s)

SpecClock == Init /\ [][NextClock]_vars

\* The failing-cleanup scenario: the life of a session of index.js when
\* browser.close() may reject.
NextCleanup ==
    \/ \E sid \in FreshIds(EndSessions), rec \in BOOLEAN : Join(sid, 1, rec)
    \/ \E s \in 1..EndSessions : Leave(s)
    \/ \E s \in 1..EndSessions : BotStep(s) \/ RunBotErrCloseFails(s)
    \/ \E s \in 1..EndSessions : EndStep(s) \/ HmeCloseFails(s)

SpecCleanup == Init /\ [][NextCleanup]_vars

\* The speaker-monitoring scenario: the life of a session of index.js while
\* the page reports active speakers.
NextSpeakers ==
    \/ \E sid \in FreshIds(EndSessions), rec \in BOOLEAN : Join(sid, 1, rec)
    \/ \E s \in 1..EndSessions : Leave(s)
    \/ \E s \in 1..EndSessions : BotStep(s)
    \/ \E s \in 1..EndSessions : MonitorReady(s) \/ MonitorFails(s)
    \/ \E s \in 1..EndSessions, name \in 1..NumSpeakers : SpeakerChange(s, name)
    \/ \E s \in 1..EndSessions : EndStep(s)

SpecSpeakers == Init /\ [][NextSpeakers]_vars

\* The main-application scenario: sessions are requested through
\* requestBotJoin, or by another client that posts to /join itself.
NextApp ==
    \/ \E sid \in FreshIds(EndSessions), rec \in BOOLEAN :
          AppRequestJoin(sid, [meetingId |-> 1, recordAudio |-> rec])
    \/ \E sid \in FreshIds(EndSessions), rec \in BOOLEAN : Join(sid, 1, rec)
    \/ \E s \in 1..EndSessions : Leave(s)
    \/ \E s \in 1..EndSessions : BotStep(s)
    \/ \E s \in 1..EndSessions : EndStep(s)

SpecApp == Init /\ [][NextApp]_vars

\* The webhook receiver of the main application: events arrive in any
\* order, any number of times.
NextWebhook ==
    \E s \in 0..WebhookSessions, type \in EventTypes : WebhookPost(s, type)

SpecWebhook == Init /\ [][NextWebhook]_vars

\* The scheduler of the main application with a store that answers.
NextSched ==
    \/ \E k \in 1..NumSchedules, i \in 1..NumTickers : SchedulePost(k, i)
    \/ \E i \in 1..NumTickers : IntervalTick(i)
    \/ \E i \in 1..NumTickers : TickRead(i)
    \/ \E i \in 1..NumTickers, result \in JoinAnswers : TickJoined(i, result)
    \/ \E i \in 1..NumTickers : TickDeleted(i)

SpecSched == Init /\ [][NextSched]_vars

\* The scheduler when the operations on the store may throw.
NextSchedThrows ==
    \/ NextSched
    \/ \E i \in 1..NumTickers : TickReadFails(i) \/ TickDeleteFails(i)

SpecSchedThrows == Init /\ [][NextSchedThrows]_vars

\* a /leave that arrives once the session is recording, or later
LateLeave(s) ==
    /\ sessions[s].status \in {"recording", "processing"} \cup Terminal
    /\ Leave(s)

\* The repeated-end scenario: a recorded meeting whose first /leave arrives
\* while the session is 'recording', so that every further /leave finds it
\* 'processing' or 'completed'.
NextDup ==
    \/ \E sid \in JoinIds(EndSessions) : Join(sid, 1, TRUE)
    \/ \E s \in 1..EndSessions : LateLeave(s)
    \/ \E s \in 1..EndSessions : BotStep(s)
    \/ \E s \in 1..EndSessions : EndStep(s)

SpecDup == Init /\ [][NextDup]_vars

\* The backup service (index_puppeteer_backup.js) recording one meeting.
InitBackup ==
    /\ InitRegistry
    /\ impl = "backup"
    /\ mainApp = "up"

NextBackup ==
    \/ \E sid \in JoinIds(BackupSessions) : Join(sid, 1, TRUE)
    \/ \E s \in 1..BackupSessions : Leave(s)
    \/ \E s \in 1..BackupSessions : BotStep(s) \/ RunBotVerified(s) \/ Rotate(s)
    \/ \E s \in 1..BackupSessions : PageClosed(s) \/ KickDetected(s)
    \/ \E s \in 1..BackupSessions : EndStep(s) \/ HmeMergeOk(s) \/ HmeMergeFails(s)

SpecBackup == InitBackup /\ [][NextBackup]_vars

\* ============================================================ properties
\* the sessions of the registry that are not 'completed' / 'error'
NonTerminal == {s \in AllIds : Present(s) /\ sessions[s].status \notin Terminal}

NonTerminalFor(mid) == {s \in NonTerminal : sessions[s].meetingId = mid}

\* no session of the registry is for this meeting
NewMeeting(mid) == \A s \in AllIds : Present(s) => sessions[s].meetingId # mid

\* C1: in every reachable state at most one session per meetingId has a
\* status other than 'completed' / 'error'.
C1_DedupInvariant ==
    \A mid \in AllIds : Cardinality(NonTerminalFor(mid)) <= 1

\* C2: in every reachable state at most MAX_BOTS sessions have a status
\* other than 'completed' / 'error'.
C2_CapacityInvariant == Cardinality(NonTerminal) <= MAX_BOTS

\* C3: 'completed' and 'error' are absorbing: a session whose status is
\* terminal keeps that status in every later state.
C3_TerminalAbsorbing ==
    [][\A s \in AllIds :
          sessions[s].status \in Terminal => sessions'[s].status = sessions[s].status]_vars

\* C4: the processing block of handleMeetingEnd is entered at most once per
\* session, whatever the number and interleaving of /leave requests.
C4_PipelineAtMostOnce == \A s \in AllIds : pipelineStarts[s] <= 1

\* C4 witness: a second /leave is awaiting browser.close() while the first
\* is still awaiting the STT service.
C4_SecondLeaveDuringStt ==
    \E s \in AllIds :
        /\ pipelineStarts[s] = 1
        /\ hme[s]["stt"] = 1
        /\ hme[s]["close"] >= 1

\* the BUSY result of requestBotJoin differs from its result for every other
\* failure of the call: another non-2xx status, or a rejected fetch
BusyDistinguishable(resp) ==
    \A sid \in AllIds :
        /\ \A code \in {400, 404, 500, 503} :
              RequestBotJoin(sid, JoinHttpStatus(resp), resp) # RequestBotJoin(sid, code, resp)
        /\ \A msg \in {"fetch failed", "Bot service error: "} :
              RequestBotJoin(sid, JoinHttpStatus(resp), resp) # RequestBotJoinRejected(sid, msg)

\* the answer expected of a /join step that finds the service at capacity
BusyAnswer(sid) ==
    /\ lastJoin' = [status |-> "BUSY", sessionId |-> 0]
    /\ JoinHttpStatus(lastJoin') = 429
    /\ sessions' = sessions
    /\ rb' = rb
    /\ BusyDistinguishable(lastJoin')

C6_SlotReleasedByCompletion ==
    [][(slotFreed \/ Cardinality(NonTerminal) = MAX_BOTS) =>
          \A sid \in AllIds, mid \in AllIds, rec \in BOOLEAN :
              (~Present(sid) /\ NewMeeting(mid) /\ Join(sid, mid, rec))
              => IF slotFreed
                 THEN /\ lastJoin' = [status |-> "initiated", sessionId |-> sid]
                      /\ sessions'[sid].reg = "present"
                 ELSE lastJoin'.status = "BUSY"]_vars

\* C7: once the join action has failed for a session, GET /status/:sessionId
\* reports status 'error' for it.
C7_JoinFailureReportsError ==
    \A s \in AllIds :
        rb[s] = "failed" => GetStatus(s) = [code |-> 200, status |-> "error"]

\* C8: a sessionId that is a key of the registry stays one in every later
\* state.
C8_NoEviction ==
    [][\A s \in AllIds : Present(s) => sessions'[s].reg = "present"]_vars

\* C9: a session whose STT call failed and that is 'completed' has a
\* non-empty (placeholder) transcript.
C9_SttFailurePlaceholder ==
    \A s \in AllIds :
        ("stt" \in faults[s] /\ sessions[s].status = "completed")
        => GetTranscript(s).entries > 0

\* C10: a session whose chunk merge failed never has status 'completed': its
\* status after 'processing' is 'error'.
C10_MergeFailureIsError ==
    \A s \in AllIds :
        "merge" \in faults[s] => sessions[s].status \in {"processing", "error"}

\* C11: a session that entered 'processing' with no chunk file and no other
\* audio artifact and is 'completed' has a placeholder transcript of exactly
\* one entry.
C11_ZeroChunksOneEntry ==
    \A s \in AllIds :
        (s \in noAudio /\ sessions[s].status = "completed")
        => TranscriptEntries(sessions[s]) = 1

\* C12: a forcibly closed page or a detected kick of a session that is
\* 'recording' enters the processing block of handleMeetingEnd, as /leave
\* does: the status becomes 'processing'.
C12_EndTriggersConverge ==
    [][\A s \in AllIds :
          (sessions[s].status = "recording" /\ (PageClosed(s) \/ KickDetected(s)))
          => /\ sessions'[s].status = "processing"
             /\ pipelineStarts'[s] = pipelineStarts[s] + 1]_vars

\* C13: a rejected webhook post changes nothing: after every call of
\* notifyMainApp, delivered or not, runBot and handleMeetingEnd go on as they
\* do after a delivered one (same status, transcript, browser, next step),
\* and no exception reaches them.
C13_WebhookFailureHarmless ==
    [][\A s \in AllIds :
          /\ RunBotAfterJoined(s) => RunBotAfterJoinedOn(s, "returned")
          /\ RunBotRecNotified(s) => RunBotRecNotifiedOn(s, "returned")
          /\ RunBotErrNotified(s) => RunBotErrNotifiedOn(s, "returned")
          /\ HmeReadyNotified(s) => HmeReadyNotifiedOn(s, "returned")
          /\ HmeErrNotified(s) => HmeErrNotifiedOn(s, "returned")
          /\ rb'[s] # "rejected"]_vars

\* C13 witness: a session whose 'transcript_ready' post (among others) was
\* rejected is 'completed' with its transcript stored
C13_FailedDeliveryCompleted ==
    \E s \in AllIds :
        /\ "webhook" \in faults[s]
        /\ sessions[s].status = "completed"
        /\ sessions[s].transcript # "unset"
        /\ InFlight(s) = 0

\* C14: session.transcript is assigned at most once per session, and once it
\* is set no step changes it, whatever /leave requests and bot-runner steps
\* interleave.
C14_TranscriptSetOnce ==
    [][\A s \in AllIds :
          /\ transcriptWrites'[s] <= 1
          /\ sessions[s].transcript # "unset"
             => sessions'[s].transcript = sessions[s].transcript]_vars

\* C14 witness: the transcript is stored, the session is 'completed', and
\* another /leave is awaiting browser.close()
C14_LeaveAfterTranscript ==
    \E s \in AllIds :
        /\ transcriptWrites[s] = 1
        /\ sessions[s].status = "completed"
        /\ hme[s]["close"] >= 1

\* C15: every session of the registry that is 'joining' eventually is not
\* 'joining' any more ('joined', or the error outcome of runBot's catch), and
\* once an awaited step of the join has failed the browser is eventually not
\* open.
C15_JoinTerminates ==
    \A s \in AllIds :
        /\ (Present(s) /\ sessions[s].status = "joining")
              ~> ~(Present(s) /\ sessions[s].status = "joining")
        /\ ("join" \in faults[s]) ~> (sessions[s].browser # "open")

\* handleMeetingEnd invocations for s suspended inside the processing block
InPipeline(s) ==
    hme[s]["merge"] + hme[s]["stt"] + hme[s]["notifyReady"] + hme[s]["notifyErr"]

\* a step of a handleMeetingEnd invocation that found s 'processing',
\* 'completed' or 'error', when every /leave is a LateLeave: its start, or a
\* browser.close() resolving that is not the one awaited by the invocation
\* that did the processing (which awaits it with nothing left in the block)
DuplicateEndStep(s) ==
    /\ sessions[s].status \in {"processing"} \cup Terminal
    /\ sessions[s].status = "processing" => InPipeline(s) > 0
    /\ LateLeave(s) \/ HmeClosed(s)

\* C16: a /leave that finds the session 'processing', 'completed' or 'error'
\* changes neither its status nor its browser handle nor its transcript.
C16_DuplicateEndIsNoOp ==
    [][\A s \in AllIds :
          DuplicateEndStep(s)
          => /\ sessions'[s].status = sessions[s].status
             /\ sessions'[s].browser = sessions[s].browser
             /\ sessions'[s].transcript = sessions[s].transcript]_vars

\* C17: a status becomes 'recording' only for a session whose recordAudio is
\* true; a session without recordAudio is never 'recording' or 'processing',
\* and once it is 'joined' it stays 'joined' until a /leave completes it.
C17_RecordingOnlyIfRecordAudio ==
    [][\A s \in AllIds :
          /\ (sessions'[s].status = "recording" /\ sessions[s].status # "recording")
             => sessions[s].recordAudio
          /\ ~sessions'[s].recordAudio
             => sessions'[s].status \notin {"recording", "processing"}
          /\ (Present(s) /\ ~sessions[s].recordAudio /\ sessions[s].status = "joined")
             => \/ sessions'[s].status = "joined"
                \/ /\ sessions'[s].status = "completed"
                   /\ Leave(s) \/ HmeClosed(s)]_vars

\* C17 witness: a session without recordAudio joined, was left alone by
\* runBot, and a /leave completed it
C17_JoinedThenLeft ==
    \E s \in AllIds :
        /\ Present(s)
        /\ ~sessions[s].recordAudio
        /\ rb[s] = "done"
        /\ sessions[s].status = "completed"
        /\ sessions[s].browser = "closed"
        /\ pipelineStarts[s] = 0

\* C18: a failed getStream leaves the session record as it is; afterwards the
\* session is never 'error' and never leaves the registry; while it is
\* 'recording' a /leave makes it 'processing' and nothing else changes the
\* status (but a /leave begun before 'recording' was written, whose
\* browser.close() resolves now, completes it); from 'processing' it only
\* becomes 'completed'.
C18_StreamFailureNotFatal ==
    [][\A s \in AllIds :
          "stream" \in faults'[s]
          => /\ sessions'[s].reg = "present"
             /\ sessions'[s].status # "error"
             /\ "stream" \notin faults[s] => sessions'[s] = sessions[s]
             /\ ("stream" \in faults[s] /\ sessions[s].status = "recording")
                => IF Leave(s) THEN sessions'[s].status = "processing"
                   ELSE IF HmeClosed(s) THEN sessions'[s].status = "completed"
                   ELSE sessions'[s].status = "recording"
             /\ ("stream" \in faults[s] /\ sessions[s].status = "processing")
                => sessions'[s].status \in {"processing", "completed"}]_vars

\* C18 witness: getStream has failed, startRecording and runBot have
\* returned, and the session is in the registry with status 'recording'
C18_StreamFailedStillRecording ==
    \E s \in AllIds :
        /\ "stream" \in faults[s]
        /\ rb[s] = "done"
        /\ Present(s)
        /\ sessions[s].status = "recording"
        /\ sessions[s].chunks = 0

\* C19: a chunk file is opened only while the status is 'recording', and the
\* rotation timer cancels itself when it fires with another status.
C19_NoChunkUnlessRecording ==
    [][\A s \in AllIds :
          /\ sessions'[s].chunks > sessions[s].chunks => sessions[s].status = "recording"
          /\ (Rotate(s) /\ sessions[s].status # "recording") => ~sessions'[s].ticking]_vars

\* C20: no chunk write stream of a session is open while its status is
\* 'processing' or 'completed'.
C20_NoOpenChunkAfterRecording ==
    \A s \in AllIds :
        sessions[s].status \in {"processing", "completed"}
        => sessions[s].currentFile # "open"

\* ceil(d / r) for d >= 0, r >= 1
CeilDiv(d, r) == (d + r - 1) \div r

\* C21: chunkIndex only ever grows, by one per opened chunk, and when a
\* recording that ran for D >= 1 minutes has ended the number of chunk files
\* it produced is ceil(D / ChunkMinutes), exact multiples included.
C21_ChunkCountIsCeil ==
    [][\A s \in AllIds :
          /\ sessions'[s].chunkIndex \in {sessions[s].chunkIndex, sessions[s].chunkIndex + 1}
          /\ (sessions'[s].status \in {"processing", "completed"} /\ sessions'[s].elapsed >= 1)
             => sessions'[s].chunkIndex = CeilDiv(sessions'[s].elapsed, ChunkMinutes)]_vars

\* nothing is running for session s any more: runBot has ended and no
\* handleMeetingEnd invocation is suspended
Settled(s) == InFlight(s) = 0 /\ rb[s] \in {"done", "failed", "rejected"}

\* C22: on the failure path of runBot the browser is closed only after a
\* terminal status was written, and a session whose browser.close() failed is
\* not left 'joining' or 'processing' once nothing runs for it any more.
C22_TerminalBeforeCleanup ==
    \A s \in AllIds :
        /\ rb[s] = "errClose" => sessions[s].status \in Terminal
        /\ ("cleanup" \in faults[s] /\ Settled(s))
           => sessions[s].status \notin {"joining", "processing"}

\* C23: speakerLog is append-only, and it changes only while the status is
\* 'recording'.
C23_SpeakerLogOnlyWhileRecording ==
    [][\A s \in AllIds :
          sessions'[s].speakerLog # sessions[s].speakerLog
          => /\ sessions[s].status = "recording"
             /\ \E name \in 1..NumSpeakers :
                   sessions'[s].speakerLog = Append(sessions[s].speakerLog, name)]_vars

\* C24: a session that is terminal or has been removed from the registry
\* holds no open browser, no open chunk file and no running rotation timer.
C24_ReleasedWhenTerminal ==
    \A s \in AllIds :
        (sessions[s].status \in Terminal \/ sessions[s].reg = "deleted")
        => /\ sessions[s].browser # "open"
           /\ sessions[s].currentFile # "open"
           /\ ~sessions[s].ticking

\* C25: when the processing block is entered for a session with k >= 1 chunk
\* files, the audio selected for transcription is made of exactly these k
\* chunks in ascending chunkIndex (the chunk itself for k = 1), and of no
\* other file.
C25_InputIsOwnChunks ==
    [][\A s \in AllIds :
          (Leave(s) /\ ShouldProcess(sessions[s]) /\ sessions[s].chunks >= 1)
          => sessions'[s].sttInput = [i \in 1..sessions[s].chunks |-> i]]_vars

\* C27: while GET /transcript reports 'completed' for a session, no
\* handleMeetingEnd invocation is still inside the processing block and no
\* step changes the transcript it returns.
C27_CompletedIsFinal ==
    [][\A s \in AllIds :
          (Present(s) /\ GetTranscript(s).status = "completed")
          => /\ InPipeline(s) = 0
             /\ sessions'[s].transcript = sessions[s].transcript]_vars

\* C28: a join requested through requestBotJoin with recordAudio true that
\* is admitted creates a session whose recordAudio flag is true.
C28_RecordAudioForwarded ==
    [][\A sid \in AllIds :
          (/\ AppRequestJoin(sid, [meetingId |-> 1, recordAudio |-> TRUE])
           /\ lastJoin'.status = "initiated")
          => sessions'[sid].recordAudio]_vars

\* C26: once 'joined' and 'recording_started' have both been delivered for a
\* session, in whatever order and however often (and no 'error'), the map
\* holds it as 'recording', as after one delivery of each in order; and
\* transcript fetching is started at most once per session.
C26_WebhookIdempotent ==
    \A s \in AllIds :
        /\ ({"joined", "recording_started"} \subseteq delivered[s] /\ "error" \notin delivered[s])
           => activeSessions[s] = "recording"
        /\ fetches[s] <= 1

\* the invocations of tickScheduler that are past the isRunning guard
RunningTicks == {i \in 1..NumTickers : ticks[i].pc # "idle"}

\* C29: at most one invocation of tickScheduler is past the guard, and when
\* none is running isRunning is false again.
C29_TicksExclusive ==
    /\ Cardinality(RunningTicks) <= 1
    /\ RunningTicks = {} => ~isRunning
    /\ RunningTicks # {} => isRunning

\* C29 witness: an invocation was turned away at the guard, an operation
\* inside a tick threw, and the scheduler is idle with the flag cleared
C29_SkippedAndThrew ==
    /\ {"skipped", "threw"} \subseteq tickLog
    /\ RunningTicks = {}
    /\ ~isRunning

\* a tick is between its join request for schedule k and the deletion
JoinPending(k) ==
    \E i \in 1..NumTickers :
        ticks[i].pc \in {"join", "delete"} /\ Head(ticks[i].queue) = k

====
